---- MODULE Spec2Model ----
(***************************************************************************)
(* Model of the expense tracker (src/main.py): the date codec, the filter  *)
(* parser, the query builder over the sqlite table `expenses`, the         *)
(* reporting functions and the interactive loop of main().                 *)
(*                                                                         *)
(* A text (Python str) is a sequence of one-character strings.  Library    *)
(* calls (str.split, int, float, date.fromisoformat, the sqlite3 adapters, *)
(* SQL LIKE / BETWEEN / DATE) are modelled by what CPython 3.11 and SQLite *)
(* do on the alphabet used by the inputs below.                            *)
(***************************************************************************)
EXTENDS Integers, Sequences, FiniteSets, TLC

\* ------------------------------------------------------------------------
\* Texts
\* ------------------------------------------------------------------------

DigitChars == <<"0", "1", "2", "3", "4", "5", "6", "7", "8", "9">>

IsDigit(c) == \E i \in 1..10 : DigitChars[i] = c

DigitVal(c) == (CHOOSE i \in 1..10 : DigitChars[i] = c) - 1

DigitChar(n) == DigitChars[n + 1]

AllDigits(s) == \A i \in 1..Len(s) : IsDigit(s[i])

\* value of a non-empty all-digit text
RECURSIVE Num(_)
Num(s) ==
  IF Len(s) = 0 THEN 0
  ELSE 10 * Num(SubSeq(s, 1, Len(s) - 1)) + DigitVal(s[Len(s)])

\* n rendered with exactly w digits, zero padded (n < 10^w)
RECURSIVE Pad(_, _)
Pad(n, w) ==
  IF w = 0 THEN <<>>
  ELSE Pad(n \div 10, w - 1) \o <<DigitChar(n % 10)>>

\* str.split(sep) with a one-character separator: always at least one field,
\* empty fields are kept
RECURSIVE Split(_, _)
Split(s, sep) ==
  IF \A i \in 1..Len(s) : s[i] # sep THEN <<s>>
  ELSE LET i == CHOOSE k \in 1..Len(s) :
                   s[k] = sep /\ \A j \in 1..(k - 1) : s[j] # sep
       IN  <<SubSeq(s, 1, i - 1)>> \o Split(SubSeq(s, i + 1, Len(s)), sep)

\* str.strip() restricted to the space character
RECURSIVE Strip(_)
Strip(s) ==
  IF Len(s) = 0 THEN s
  ELSE IF s[1] = " " THEN Strip(Tail(s))
  ELSE IF s[Len(s)] = " " THEN Strip(SubSeq(s, 1, Len(s) - 1))
  ELSE s

\* ------------------------------------------------------------------------
\* Date codec
\* ------------------------------------------------------------------------

\* A value of convert_str_to_date: a datetime.date, None, or a raised
\* ValueError (the exception is a value here so that callers can propagate it)
MkDate(y, m, d) == [kind |-> "date", y |-> y, m |-> m, d |-> d]

None == [kind |-> "None", y |-> 0, m |-> 0, d |-> 0]

ValueError == [kind |-> "ValueError", y |-> 0, m |-> 0, d |-> 0]

IsLeap(y) == (y % 4 = 0 /\ y % 100 # 0) \/ y % 400 = 0

DaysInMonth(y, m) ==
  IF m = 2 THEN (IF IsLeap(y) THEN 29 ELSE 28)
  ELSE IF m \in {4, 6, 9, 11} THEN 30
  ELSE 31

\* the range check of the datetime.date constructor (MINYEAR = 1)
ValidYMD(y, m, d) ==
  /\ y >= 1 /\ y <= 9999
  /\ m >= 1 /\ m <= 12
  /\ d >= 1 /\ d <= DaysInMonth(y, m)

\* date.fromisoformat (CPython 3.11): YYYYMMDD or YYYY-MM-DD, ASCII digits
\* only, then the constructor's range check.  The ISO week forms need the
\* letter W, which no modelled input contains.
fromisoformat(s) ==
  IF Len(s) = 8 /\ AllDigits(s)
  THEN LET y == Num(SubSeq(s, 1, 4))
           m == Num(SubSeq(s, 5, 6))
           d == Num(SubSeq(s, 7, 8))
       IN  IF ValidYMD(y, m, d) THEN MkDate(y, m, d) ELSE ValueError
  ELSE IF /\ Len(s) = 10
          /\ s[5] = "-" /\ s[8] = "-"
          /\ AllDigits(SubSeq(s, 1, 4))
          /\ AllDigits(SubSeq(s, 6, 7))
          /\ AllDigits(SubSeq(s, 9, 10))
  THEN LET y == Num(SubSeq(s, 1, 4))
           m == Num(SubSeq(s, 6, 7))
           d == Num(SubSeq(s, 9, 10))
       IN  IF ValidYMD(y, m, d) THEN MkDate(y, m, d) ELSE ValueError
  ELSE ValueError

\* convert_str_to_date: arr[1] / arr[2] raise IndexError when the text has
\* fewer than 2 / 3 fields, which is the only exception the function catches
convert_str_to_date(string) ==
  LET arr == Split(string, "/")
      a0  == IF Len(arr[1]) < 2 THEN <<"0">> \o arr[1] ELSE arr[1]
  IN  IF Len(arr) < 2 THEN None
      ELSE LET a1 == IF Len(arr[2]) < 2 THEN <<"0">> \o arr[2] ELSE arr[2]
           IN  IF Len(arr) < 3 THEN None
               ELSE fromisoformat(arr[3] \o a0 \o a1)

\* str(date) = date.isoformat(): YYYY-MM-DD, zero padded
isoformat(dt) == Pad(dt.y, 4) \o <<"-">> \o Pad(dt.m, 2) \o <<"-">> \o Pad(dt.d, 2)

\* a rendering with day and month exchanged
convert_date_to_string_dmy(date1) ==
  LET arr == Split(isoformat(date1), "-")
  IN  arr[3] \o <<"/">> \o arr[2] \o <<"/">> \o arr[1]

\* convert_date_to_string: MM/DD/YYYY from the fields of str(date1)
convert_date_to_string(date1) ==
  LET arr == Split(isoformat(date1), "-")
  IN  arr[2] \o <<"/">> \o arr[3] \o <<"/">> \o arr[1]

\* ------------------------------------------------------------------------
\* Numbers read from the keyboard
\* ------------------------------------------------------------------------

\* int(text): surrounding blanks stripped, optional sign, decimal digits
IntOf(v) == [kind |-> "int", v |-> v]

IntError == [kind |-> "ValueError", v |-> 0]

ParseInt(text) ==
  LET s    == Strip(text)
      neg  == Len(s) > 0 /\ s[1] = "-"
      body == IF Len(s) > 0 /\ s[1] \in {"-", "+"} THEN Tail(s) ELSE s
  IN  IF Len(body) > 0 /\ AllDigits(body)
      THEN IntOf(IF neg THEN 0 - Num(body) ELSE Num(body))
      ELSE IntError

\* A float is mant / 10^scale with mant not divisible by 10 unless scale = 0,
\* or nan, or the float conversion's ValueError
RECURSIVE Normal(_, _)
Normal(mant, scale) ==
  IF scale > 0 /\ mant % 10 = 0 THEN Normal(mant \div 10, scale - 1)
  ELSE [kind |-> "num", mant |-> mant, scale |-> scale]

NaN == [kind |-> "nan", mant |-> 0, scale |-> 0]

FloatError == [kind |-> "ValueError", mant |-> 0, scale |-> 0]

\* float(text): surrounding blanks stripped, "nan", or optional sign and
\* digits with at most one decimal point and at least one digit
ParseFloat(text) ==
  LET s     == Strip(text)
      neg   == Len(s) > 0 /\ s[1] = "-"
      body  == IF Len(s) > 0 /\ s[1] \in {"-", "+"} THEN Tail(s) ELSE s
      parts == Split(body, ".")
  IN  IF body = <<"n", "a", "n">> THEN NaN
      ELSE IF Len(parts) = 1 /\ Len(body) > 0 /\ AllDigits(body)
      THEN Normal(IF neg THEN 0 - Num(body) ELSE Num(body), 0)
      ELSE IF /\ Len(parts) = 2
              /\ AllDigits(parts[1]) /\ AllDigits(parts[2])
              /\ Len(parts[1]) + Len(parts[2]) > 0
      THEN LET n == Num(parts[1] \o parts[2])
           IN  Normal(IF neg THEN 0 - n ELSE n, Len(parts[2]))
      ELSE FloatError

\* ------------------------------------------------------------------------
\* Record store: the table `expenses`
\* ------------------------------------------------------------------------

\* SQL NULL, distinct from every text
SqlNull == <<"NULL">>

\* what the column `amount INTEGER NOT NULL` keeps of a bound Python float:
\* NaN is bound as NULL; INTEGER affinity turns an integral REAL into an
\* INTEGER and leaves any other REAL as it is
Affinity(v) ==
  [type  |-> IF v.kind = "num" /\ v.scale = 0 THEN "integer" ELSE "real",
   mant  |-> v.mant,
   scale |-> v.scale]

\* an insert that binds category and desc in each other's place
add_expense_swapped(conn, amt, cat, desc, date) ==
  IF amt.kind = "nan"
  THEN [raised |-> TRUE, conn |-> conn]
  ELSE [raised |-> FALSE,
        conn   |-> Append(conn, [id       |-> Len(conn) + 1,
                                 amount   |-> Affinity(amt),
                                 category |-> desc,
                                 desc     |-> cat,
                                 date     |-> isoformat(date)])]

\* an insert that replaces the table by the new row
add_expense_replace(conn, amt, cat, desc, date) ==
  IF amt.kind = "nan"
  THEN [raised |-> TRUE, conn |-> conn]
  ELSE [raised |-> FALSE,
        conn   |-> <<[id       |-> 1,
                      amount   |-> Affinity(amt),
                      category |-> cat,
                      desc     |-> desc,
                      date     |-> isoformat(date)]>>]

\* add_expense: the INSERT, inside one transaction.  A NULL amount violates
\* NOT NULL: sqlite3.IntegrityError is raised and the table is unchanged.
\* id INTEGER PRIMARY KEY is the largest rowid plus one; date is bound through
\* the sqlite3 date adapter, date.isoformat()
add_expense(conn, amt, cat, desc, date) ==
  IF amt.kind = "nan"
  THEN [raised |-> TRUE, conn |-> conn]
  ELSE [raised |-> FALSE,
        conn   |-> Append(conn, [id       |-> Len(conn) + 1,
                                 amount   |-> Affinity(amt),
                                 category |-> cat,
                                 desc     |-> desc,
                                 date     |-> isoformat(date)])]

\* the text 'all'
all == <<"a", "l", "l">>

UpperChars ==
  <<"A", "B", "C", "D", "E", "F", "G", "H", "I", "J", "K", "L", "M",
    "N", "O", "P", "Q", "R", "S", "T", "U", "V", "W", "X", "Y", "Z">>

LowerChars ==
  <<"a", "b", "c", "d", "e", "f", "g", "h", "i", "j", "k", "l", "m",
    "n", "o", "p", "q", "r", "s", "t", "u", "v", "w", "x", "y", "z">>

\* ASCII case folding as SQLite's LIKE does it
Fold(c) ==
  IF \E i \in 1..26 : UpperChars[i] = c
  THEN LowerChars[CHOOSE i \in 1..26 : UpperChars[i] = c]
  ELSE c

\* SQL `s LIKE pat`: % matches any run of characters, _ any one character,
\* every other character matches itself without regard to ASCII case
RECURSIVE Like(_, _)
Like(pat, s) ==
  IF Len(pat) = 0 THEN Len(s) = 0
  ELSE IF pat[1] = "%"
  THEN Like(Tail(pat), s) \/ (Len(s) > 0 /\ Like(pat, Tail(s)))
  ELSE IF pat[1] = "_"
  THEN Len(s) > 0 /\ Like(Tail(pat), Tail(s))
  ELSE Len(s) > 0 /\ Fold(pat[1]) = Fold(s[1]) /\ Like(Tail(pat), Tail(s))

\* code point of the characters that occur in ISO date texts
Ord(c) == IF c = "-" THEN 45 ELSE 48 + DigitVal(c)

\* SQLite's BINARY collation: bytewise comparison, a proper prefix is smaller
RECURSIVE TextLess(_, _)
TextLess(a, b) ==
  IF Len(b) = 0 THEN FALSE
  ELSE IF Len(a) = 0 THEN TRUE
  ELSE IF a[1] # b[1] THEN Ord(a[1]) < Ord(b[1])
  ELSE TextLess(Tail(a), Tail(b))

\* a comparison that leaves the bounds of BETWEEN out
TextLeq_exclusive(a, b) == TextLess(a, b)

TextLeq(a, b) == a = b \/ TextLess(a, b)

\* SQL DATE(text): the text is read as YYYY-MM-DD and rendered again; NULL if
\* it is not a date.  (SQLite carries a day past the end of a month into the
\* next month; a stored date never has one, see add_expense.)
SqlDATE(t) ==
  IF /\ Len(t) = 10
     /\ t[5] = "-" /\ t[8] = "-"
     /\ AllDigits(SubSeq(t, 1, 4))
     /\ AllDigits(SubSeq(t, 6, 7))
     /\ AllDigits(SubSeq(t, 9, 10))
     /\ ValidYMD(Num(SubSeq(t, 1, 4)), Num(SubSeq(t, 6, 7)), Num(SubSeq(t, 9, 10)))
  THEN Pad(Num(SubSeq(t, 1, 4)), 4) \o <<"-">> \o Pad(Num(SubSeq(t, 6, 7)), 2)
         \o <<"-">> \o Pad(Num(SubSeq(t, 9, 10)), 2)
  ELSE SqlNull

\* a bound parameter: None is NULL, a date goes through the date adapter
Param(v) == IF v = None THEN SqlNull ELSE isoformat(v)

\* a date clause that takes a lone start date as the lower bound of a range
DateClause_from_start(row, start, end) ==
  IF end # None
  THEN /\ Param(start) # SqlNull
       /\ SqlDATE(row.date) # SqlNull
       /\ TextLeq(Param(start), SqlDATE(row.date))
       /\ TextLeq(SqlDATE(row.date), Param(end))
  ELSE IF start # None
  THEN SqlDATE(row.date) # SqlNull /\ TextLeq(Param(start), SqlDATE(row.date))
  ELSE TRUE

\* the date clause of list_expenses, on one row
\* (a comparison with NULL is not true, so BETWEEN NULL AND x selects nothing)
DateClause(row, start, end) ==
  IF end # None
  THEN /\ Param(start) # SqlNull
       /\ SqlDATE(row.date) # SqlNull
       /\ TextLeq(Param(start), SqlDATE(row.date))
       /\ TextLeq(SqlDATE(row.date), Param(end))
  ELSE IF start # None
  THEN SqlDATE(row.date) # SqlNull /\ SqlDATE(row.date) = Param(start)
  ELSE TRUE

\* a category clause that is added for 'all' too
CategoryClause_always(row, cat) == Like(cat, row.category)

\* the category clause of list_expenses, on one row
CategoryClause(row, cat) ==
  IF cat # all THEN Like(cat, row.category) ELSE TRUE

\* a sort that puts a row before the earlier rows of the same date
RECURSIVE InsertDesc_ties_reversed(_, _)
InsertDesc_ties_reversed(sorted, row) ==
  IF Len(sorted) = 0 THEN <<row>>
  ELSE IF TextLeq(sorted[1].date, row.date) THEN <<row>> \o sorted
  ELSE <<sorted[1]>> \o InsertDesc_ties_reversed(Tail(sorted), row)

\* ORDER BY date DESC: rows with a larger date text first, rows with equal
\* date texts in rowid order
RECURSIVE InsertDesc(_, _)
InsertDesc(sorted, row) ==
  IF Len(sorted) = 0 THEN <<row>>
  ELSE IF TextLess(sorted[1].date, row.date) THEN <<row>> \o sorted
  ELSE <<sorted[1]>> \o InsertDesc(Tail(sorted), row)

RECURSIVE OrderByDateDesc(_)
OrderByDateDesc(rows) ==
  IF Len(rows) = 0 THEN <<>>
  ELSE InsertDesc(OrderByDateDesc(SubSeq(rows, 1, Len(rows) - 1)), rows[Len(rows)])

\* the WHERE clause: the conjunction of the clauses that are present
RECURSIVE Where(_, _, _, _)
Where(rows, cat, start, end) ==
  IF Len(rows) = 0 THEN <<>>
  ELSE (IF DateClause(rows[1], start, end) /\ CategoryClause(rows[1], cat)
        THEN <<rows[1]>> ELSE <<>>)
       \o Where(Tail(rows), cat, start, end)

BetweenArg ==
  <<"D", "A", "T", "E", "(", "d", "a", "t", "e", ")", " ", "B", "E", "T",
    "W", "E", "E", "N", " ", "?", " ", "A", "N", "D", " ", "?">>

EqualArg ==
  <<"D", "A", "T", "E", "(", "d", "a", "t", "e", ")", " ", "=", " ", "?">>

LikeArg ==
  <<"c", "a", "t", "e", "g", "o", "r", "y", " ", "L", "I", "K", "E", " ",
    "?">>

SelectFrom ==
  <<"S", "E", "L", "E", "C", "T", " ", "i", "d", ",", " ", "a", "m", "o",
    "u", "n", "t", ",", " ", "c", "a", "t", "e", "g", "o", "r", "y", ",",
    " ", "d", "e", "s", "c", ",", " ", "d", "a", "t", "e", " ", "F", "R",
    "O", "M", " ", "e", "x", "p", "e", "n", "s", "e", "s">>

OrderBy ==
  <<" ", "O", "R", "D", "E", "R", " ", "B", "Y", " ", "d", "a", "t", "e",
    " ", "D", "E", "S", "C">>

\* args of list_expenses: the clauses, in the order they are appended
QueryArgs(cat, start, end) ==
  (IF end # None THEN <<BetweenArg>>
   ELSE IF start # None THEN <<EqualArg>>
   ELSE <<>>)
  \o (IF cat # all THEN <<LikeArg>> ELSE <<>>)

\* params of list_expenses: the bound values, in the order they are appended
QueryParams(cat, start, end) ==
  (IF end # None THEN <<Param(start), Param(end)>>
   ELSE IF start # None THEN <<Param(start)>>
   ELSE <<>>)
  \o (IF cat # all THEN <<cat>> ELSE <<>>)

\* for arg in args: sql += f"{arg} AND "
RECURSIVE AppendArgs(_, _)
AppendArgs(sql, args) ==
  IF Len(args) = 0 THEN sql
  ELSE AppendArgs(sql \o args[1] \o <<" ", "A", "N", "D", " ">>, Tail(args))

\* a statement text that keeps the trailing "AND "
QuerySql_uncut(args) ==
  LET head == IF Len(args) # 0
              THEN SelectFrom \o <<" ", "W", "H", "E", "R", "E", " ">>
              ELSE SelectFrom
  IN  AppendArgs(head, args) \o OrderBy

\* the text of the statement: the trailing "AND " is cut off by the slice
\* sql[:len(sql)-4]
QuerySql(args) ==
  LET head   == IF Len(args) # 0
                THEN SelectFrom \o <<" ", "W", "H", "E", "R", "E", " ">>
                ELSE SelectFrom
      joined == AppendArgs(head, args)
      cut    == IF Len(args) # 0 THEN SubSeq(joined, 1, Len(joined) - 4)
                ELSE joined
  IN  cut \o OrderBy

\* the statement and the parameters handed to conn.execute
Query(cat, start, end) ==
  [sql    |-> QuerySql(QueryArgs(cat, start, end)),
   params |-> QueryParams(cat, start, end)]

NoQuery == [sql |-> <<>>, params |-> <<>>]

\* list_expenses (desc is never passed by the program, so it is None)
list_expenses(conn, cat, start, end) ==
  OrderByDateDesc(Where(conn, cat, start, end))

\* ------------------------------------------------------------------------
\* Filter parser
\* ------------------------------------------------------------------------

Filter(cat, start, end) ==
  [kind |-> "filter", category |-> cat, start |-> start, end |-> end]

\* the loop body printed a "try again" message and reads a line
Reprompt == [kind |-> "reprompt", category |-> <<>>, start |-> None, end |-> None]

\* convert_str_to_date raised ValueError, which parse_response does not catch
Raised == [kind |-> "ValueError", category |-> <<>>, start |-> None, end |-> None]

\* an iteration that reads the end date from the second word
ParseIteration_end_from_start(resp) ==
  LET words == Split(resp, " ")
  IN  IF Len(words) > 3 \/ Len(words) < 2 THEN Reprompt
      ELSE LET cat      == words[1]
               start    == IF words[2] # all THEN convert_str_to_date(words[2])
                           ELSE None
           IN  IF start = ValueError THEN Raised
               ELSE IF words[2] # all /\ start = None THEN Reprompt
               ELSE IF Len(words) > 2
               THEN LET end == convert_str_to_date(words[2])
                    IN  IF end = ValueError THEN Raised
                        ELSE IF end = None THEN Reprompt
                        ELSE Filter(cat, start, end)
               ELSE Filter(cat, start, None)

\* one iteration of the while loop of parse_response, up to its first input(),
\* break or uncaught exception
ParseIteration(resp) ==
  LET words == Split(resp, " ")
  IN  IF Len(words) > 3 \/ Len(words) < 2 THEN Reprompt
      ELSE LET cat      == words[1]
               start    == IF words[2] # all THEN convert_str_to_date(words[2])
                           ELSE None
           IN  IF start = ValueError THEN Raised
               ELSE IF words[2] # all /\ start = None THEN Reprompt
               ELSE IF Len(words) > 2
               THEN LET end == convert_str_to_date(words[3])
                    IN  IF end = ValueError THEN Raised
                        ELSE IF end = None THEN Reprompt
                        ELSE Filter(cat, start, end)
               ELSE Filter(cat, start, None)

\* ------------------------------------------------------------------------
\* Reporting
\* ------------------------------------------------------------------------

RECURSIVE Pow10(_)
Pow10(k) == IF k = 0 THEN 1 ELSE 10 * Pow10(k - 1)

\* the largest power of two not above n (n >= 1)
RECURSIVE FloorPow2(_)
FloorPow2(n) == IF n < 2 THEN 1 ELSE 2 * FloorPow2(n \div 2)

\* x + y = y in binary64 arithmetic: x is below half an ulp of y, that is
\* x * 2^53 < 2^k for the largest 2^k <= y.  Decided for y >= 1 and x below
\* 10^-11 with 2^53 < 9008 * 10^12; any other pair is taken as not negligible.
Negligible(x, y) ==
  /\ x.mant > 0
  /\ x.scale >= 12 /\ x.scale <= 16
  /\ y.scale <= 3 /\ y.mant \div Pow10(y.scale) >= 1
  /\ x.mant * 9008 < FloorPow2(y.mant \div Pow10(y.scale)) * Pow10(x.scale - 12)

\* total += row['amount']: int + int is an int and exact; anything else is a
\* binary64 addition, which drops a negligible term and is exact for the other
\* sums of the modelled amounts.
Plus(total, amt) ==
  IF total.type = "integer" /\ amt.type = "integer"
  THEN [type |-> "integer", mant |-> total.mant + amt.mant, scale |-> 0]
  ELSE IF total.mant = 0
  THEN [type |-> "real", mant |-> amt.mant, scale |-> amt.scale]
  ELSE IF amt.mant = 0 \/ Negligible(amt, total)
  THEN [type |-> "real", mant |-> total.mant, scale |-> total.scale]
  ELSE IF Negligible(total, amt)
  THEN [type |-> "real", mant |-> amt.mant, scale |-> amt.scale]
  ELSE LET s == IF total.scale > amt.scale THEN total.scale ELSE amt.scale
           n == Normal(total.mant * Pow10(s - total.scale)
                         + amt.mant * Pow10(s - amt.scale), s)
       IN  [type |-> "real", mant |-> n.mant, scale |-> n.scale]

Zero == [type |-> "integer", mant |-> 0, scale |-> 0]

RECURSIVE Total(_)
Total(rows) ==
  IF Len(rows) = 0 THEN Zero
  ELSE Plus(Total(SubSeq(rows, 1, Len(rows) - 1)), rows[Len(rows)].amount)

\* a description that names only the start date of a range
Description_on_only(c, start, end) ==
  LET cat == IF c # all
             THEN <<"t", "h", "e", " ">> \o c
                    \o <<" ", "c", "a", "t", "e", "g", "o", "r", "y">>
             ELSE <<"a", "l", "l", " ", "c", "a", "t", "e", "g", "o", "r", "i", "e", "s">>
      daterange ==
        IF start = None THEN <<>>
        ELSE <<" ", "o", "n", " ">> \o convert_date_to_string(start)
  IN  cat \o daterange

\* the part {cat}{daterange} of the line summarize_spending prints
Description(c, start, end) ==
  LET cat == IF c # all
             THEN <<"t", "h", "e", " ">> \o c
                    \o <<" ", "c", "a", "t", "e", "g", "o", "r", "y">>
             ELSE <<"a", "l", "l", " ", "c", "a", "t", "e", "g", "o", "r", "i", "e", "s">>
      daterange ==
        IF start = None THEN <<>>
        ELSE IF end = None
        THEN <<" ", "o", "n", " ">> \o convert_date_to_string(start)
        ELSE <<" ", "f", "r", "o", "m", " ">> \o convert_date_to_string(start)
               \o <<" ", "t", "o", " ">> \o convert_date_to_string(end)
  IN  cat \o daterange

\* what one step of the session showed or did
Out(kind, f, q, rows, total, text) ==
  [kind |-> kind, category |-> f.category, start |-> f.start, end |-> f.end,
   sql |-> q.sql, params |-> q.params,
   rows |-> rows, total |-> total, text |-> text]

Msg(kind) == Out(kind, Reprompt, NoQuery, <<>>, Zero, <<>>)

\* view_logged_expenses: the table of list_expenses, in the order received
view_logged_expenses(f, conn) ==
  Out("table", f, Query(f.category, f.start, f.end),
      list_expenses(conn, f.category, f.start, f.end), Zero, <<>>)

\* summarize_spending: the total over list_expenses and the description
summarize_spending(f, conn) ==
  LET rows == list_expenses(conn, f.category, f.start, f.end)
  IN  Out("summary", f, Query(f.category, f.start, f.end), rows, Total(rows),
          Description(f.category, f.start, f.end))

\* ------------------------------------------------------------------------
\* What the user types
\* ------------------------------------------------------------------------

\* the sentinel
T4 == <<"4">>

RECURSIVE Join(_)
Join(tokens) ==
  IF Len(tokens) = 1 THEN tokens[1]
  ELSE tokens[1] \o <<" ">> \o Join(Tail(tokens))

D1231 == <<"1", "2", "/", "3", "1", "/", "2", "0", "2", "4">>

D820 == <<"8", "/", "2", "0", "/", "2", "0", "2", "5">>

D0821 == <<"0", "8", "/", "2", "1", "/", "2", "0", "2", "5">>

\* three fields, no such month: fromisoformat raises ValueError
DMonth13 == <<"1", "3", "/", "1", "/", "2", "0", "2", "5">>

\* two fields: arr[2] raises IndexError
DTwoFields == <<"8", "/", "2", "0">>

GoodDateTexts == {D1231, D820, D0821}

MenuTexts == {<<"1">>, <<"2">>, <<"3">>, T4, <<"5">>, <<"x">>, <<"4", ".", "0">>}

\* 0.0000000000000001
TinyText ==
  <<"0", ".", "0", "0", "0", "0", "0", "0", "0", "0", "0", "0", "0", "0",
    "0", "0", "0", "1">>

AmountTexts == {T4, TinyText, <<"n", "a", "n">>, <<"x">>}

CategoryTexts == {<<"F">>, <<"g">>, T4}

DateTexts == {D1231, D820, DMonth13, DTwoFields, T4}

DescTexts == {<<"x">>, T4}

FilterCategories == {<<"f">>, all}

WellFormedCommands ==
  {Join(<<c, st>>) : c \in FilterCategories, st \in {all} \cup GoodDateTexts}
  \cup {Join(<<c, st, en>>) : c \in FilterCategories,
                              st \in {all} \cup GoodDateTexts,
                              en \in GoodDateTexts}

\* a single-date command for each category and date an add can store, and a
\* command whose category is the LIKE wildcard _
StoredCategoryCommands ==
  {Join(<<c, st>>) : c \in {<<"F">>, <<"g">>}, st \in {D1231, D820}}
    \cup {Join(<<(<<"_">>), all>>)}

MalformedCommands ==
  { <<"f">>,
    <<"f", " ", "a", "l", "l", " ">>,
    <<"f", " ", " ", "a", "l", "l">>,
    <<"f", " ", "g", " ", "h", " ", "i">>,
    Join(<<all, DTwoFields>>),
    Join(<<all, DMonth13>>),
    Join(<<all, D820, DMonth13>>),
    Join(<<all, D820, DTwoFields>>) }

CommandTexts ==
  WellFormedCommands \cup StoredCategoryCommands \cup MalformedCommands \cup {T4}

\* what is typed at the "try again" prompt of parse_response
RetryTexts == {T4, Join(<<all, all>>), Join(<<all, D820>>), <<"f">>}

\* ------------------------------------------------------------------------
\* The session: main()
\* ------------------------------------------------------------------------

\* the largest number of rows the table is let grow to
MaxRows == 2

VARIABLES
  pc,            \* where main() waits for a line: "menu", "filter", "retry"
                 \* (inside parse_response), "amount", "category", "date",
                 \* "date_retry", "desc"; "done" after the loop, "crashed"
                 \* after an exception main() does not catch
  num,           \* the menu choice
  response,      \* the command parse_response is working on
  amount,        \* the locals of the add branch
  category,
  dateInFormat,
  expenses,      \* the table, in rowid order
  inp,           \* the line read by the last input()
  out,           \* what the last step showed or did
  stage,         \* date codec on its own: "date", "text", "parsed"
  date1,         \* the date handed to convert_date_to_string
  string,        \* the text handed to convert_str_to_date
  parsed         \* the value of convert_str_to_date

mainVars == <<pc, num, response, amount, category, dateInFormat, expenses, inp, out>>

codecVars == <<stage, date1, string, parsed>>

vars == <<pc, num, response, amount, category, dateInFormat, expenses, inp, out,
          stage, date1, string, parsed>>

\* the locals of the add branch are dead once main() is back at the menu
NoLocals ==
  /\ amount' = FloatError
  /\ category' = <<>>
  /\ dateInFormat' = None

KeepLocals == UNCHANGED <<amount, category, dateInFormat>>

\* `continue`, the end of a branch, or `except ValueError` of main(): back to
\* the top of the while loop, whose condition holds since num is not 4 here
ToMenu(o) ==
  /\ pc' = "menu"
  /\ out' = o
  /\ response' = <<>>
  /\ NoLocals

Init ==
  /\ pc = "menu"
  /\ num = 1
  /\ response = <<>>
  /\ amount = FloatError
  /\ category = <<>>
  /\ dateInFormat = None
  /\ expenses = <<>>
  /\ inp = <<>>
  /\ out = Msg("none")
  /\ stage = "off"
  /\ date1 = None
  /\ string = <<>>
  /\ parsed = None

\* num = int(input()) and the dispatch on num
MenuInput(t) ==
  /\ pc = "menu"
  /\ inp' = t
  /\ LET n == ParseInt(t)
     IN  IF n = IntError
         THEN ToMenu(Msg("error")) /\ UNCHANGED num
         ELSE /\ num' = n.v
              /\ IF n.v = 4
                 THEN pc' = "done" /\ out' = Msg("none")
                        /\ UNCHANGED response /\ KeepLocals
                 ELSE IF n.v \in {1, 3}
                 THEN pc' = "filter" /\ out' = Msg("none")
                        /\ UNCHANGED response /\ KeepLocals
                 ELSE IF n.v = 2
                 THEN pc' = "amount" /\ out' = Msg("none")
                        /\ UNCHANGED response /\ KeepLocals
                 ELSE ToMenu(Msg("error"))
  /\ UNCHANGED expenses
  /\ UNCHANGED codecVars

\* parse_response from the top of its loop with `response` = resp, and what
\* main() does with its result
RunParse(resp) ==
  LET r == ParseIteration(resp)
  IN  IF r.kind = "filter"
      THEN ToMenu(IF num = 1 THEN view_logged_expenses(r, expenses)
                  ELSE summarize_spending(r, expenses))
      ELSE IF r.kind = "reprompt"
      THEN /\ pc' = "retry"
           /\ response' = resp
           /\ out' = Msg("try again")
           /\ KeepLocals
      ELSE ToMenu(Msg("error"))

\* response = input() of the list and summarize branches
FilterInput(t) ==
  /\ pc = "filter"
  /\ inp' = t
  /\ IF t = T4 THEN ToMenu(Msg("none")) ELSE RunParse(t)
  /\ UNCHANGED <<num, expenses>>
  /\ UNCHANGED codecVars

\* words = input() inside parse_response: "4" returns None, anything else is
\* left in `words` and the loop starts again from `response`
RetryInput(t) ==
  /\ pc = "retry"
  /\ inp' = t
  /\ IF t = T4 THEN ToMenu(Msg("none")) ELSE RunParse(response)
  /\ UNCHANGED <<num, expenses>>
  /\ UNCHANGED codecVars

\* amount = float(input()) in its own retry loop
AmountInput(t) ==
  /\ pc = "amount"
  /\ inp' = t
  /\ LET v == ParseFloat(t)
     IN  IF v = FloatError
         THEN pc' = "amount" /\ out' = Msg("number only") /\ UNCHANGED amount
         ELSE pc' = "category" /\ out' = Msg("none") /\ amount' = v
  /\ UNCHANGED <<num, response, category, dateInFormat, expenses>>
  /\ UNCHANGED codecVars

\* category = input()
CategoryInput(t) ==
  /\ pc = "category"
  /\ inp' = t
  /\ IF t = T4 THEN ToMenu(Msg("none"))
     ELSE /\ pc' = "date"
          /\ out' = Msg("none")
          /\ category' = t
          /\ UNCHANGED <<response, amount, dateInFormat>>
  /\ UNCHANGED <<num, expenses>>
  /\ UNCHANGED codecVars

\* dateInFormat = convert_str_to_date(text) and the test of the while loop
AfterDate(t) ==
  LET dt == convert_str_to_date(t)
  IN  IF dt = ValueError THEN ToMenu(Msg("error"))
      ELSE IF dt = None
      THEN /\ pc' = "date_retry"
           /\ out' = Msg("valid date")
           /\ UNCHANGED <<response, amount, category, dateInFormat>>
      ELSE /\ pc' = "desc"
           /\ out' = Msg("none")
           /\ dateInFormat' = dt
           /\ UNCHANGED <<response, amount, category>>

\* date = input() after "Date:"
DateInput(t) ==
  /\ pc = "date"
  /\ inp' = t
  /\ IF t = T4 THEN ToMenu(Msg("none")) ELSE AfterDate(t)
  /\ UNCHANGED <<num, expenses>>
  /\ UNCHANGED codecVars

\* date = input() inside `while not dateInFormat`
DateRetryInput(t) ==
  /\ pc = "date_retry"
  /\ inp' = t
  /\ IF t = T4 THEN ToMenu(Msg("none")) ELSE AfterDate(t)
  /\ UNCHANGED <<num, expenses>>
  /\ UNCHANGED codecVars

\* a Description step that logs the expense before it looks at the sentinel
DescInput_log_first(t) ==
  /\ pc = "desc"
  /\ inp' = t
  /\ Len(expenses) < MaxRows
  /\ LET txt == IF t = T4 THEN <<>> ELSE t
         r   == add_expense(expenses, amount, category, txt, dateInFormat)
     IN  IF r.raised
         THEN /\ pc' = "crashed"
              /\ out' = Msg("IntegrityError")
              /\ UNCHANGED <<response, amount, category, dateInFormat, expenses>>
         ELSE ToMenu(IF t = T4 THEN Msg("none") ELSE Msg("inserted"))
                /\ expenses' = r.conn
  /\ UNCHANGED num
  /\ UNCHANGED codecVars

\* desc = input(), then log_expense; sqlite3.IntegrityError is not a
\* ValueError, so main() does not catch it
DescInput(t) ==
  /\ pc = "desc"
  /\ inp' = t
  /\ IF t = T4 THEN ToMenu(Msg("none")) /\ UNCHANGED expenses
     ELSE /\ Len(expenses) < MaxRows
          /\ LET r == add_expense(expenses, amount, category, t, dateInFormat)
             IN  IF r.raised
                 THEN /\ pc' = "crashed"
                      /\ out' = Msg("IntegrityError")
                      /\ UNCHANGED <<response, amount, category, dateInFormat, expenses>>
                 ELSE ToMenu(Msg("inserted")) /\ expenses' = r.conn
  /\ UNCHANGED num
  /\ UNCHANGED codecVars

Next ==
  \/ \E t \in MenuTexts : MenuInput(t)
  \/ \E t \in CommandTexts : FilterInput(t)
  \/ \E t \in RetryTexts : RetryInput(t)
  \/ \E t \in AmountTexts : AmountInput(t)
  \/ \E t \in CategoryTexts : CategoryInput(t)
  \/ \E t \in DateTexts : DateInput(t)
  \/ \E t \in DateTexts : DateRetryInput(t)
  \/ \E t \in DescTexts : DescInput(t)

Spec == Init /\ [][Next]_vars

\* ------------------------------------------------------------------------
\* The date codec on its own
\* ------------------------------------------------------------------------

CodecYears == {1, 999, 1900, 2000, 2024, 2025, 9999}

\* every calendar date of CodecYears (of these years 2000 and 2024 are leap)
CodecDates ==
  {MkDate(y, m, d) : y \in CodecYears, m \in 1..12, d \in 1..28}
    \cup {MkDate(y, m, d) : y \in CodecYears, m \in (1..12) \ {2}, d \in 29..30}
    \cup {MkDate(y, m, 31) : y \in CodecYears, m \in {1, 3, 5, 7, 8, 10, 12}}
    \cup {MkDate(y, 2, 29) : y \in {2000, 2024}}

\* texts a user may type at a date prompt
CodecTexts ==
  DateTexts \cup
  { <<>>,
    <<"x">>,
    <<"1", "/", "3", "2", "/", "2", "0", "2", "5">>,
    <<"2", "/", "2", "9", "/", "2", "0", "2", "5">>,
    <<"2", "/", "2", "9", "/", "2", "0", "2", "4">>,
    <<"a", "/", "b", "/", "c">>,
    <<"1", "/", "1", "/", "2", "5">>,
    <<"1", "/", "1", "/", "0", "0", "0", "0">> }

CodecInit ==
  /\ pc = "menu"
  /\ num = 1
  /\ response = <<>>
  /\ amount = FloatError
  /\ category = <<>>
  /\ dateInFormat = None
  /\ expenses = <<>>
  /\ inp = <<>>
  /\ out = Msg("none")
  /\ parsed = None
  /\ \/ stage = "date" /\ date1 \in CodecDates /\ string = <<>>
     \/ stage = "text" /\ date1 = None /\ string \in CodecTexts

\* string = convert_date_to_string(date1)
FormatDate ==
  /\ stage = "date"
  /\ string' = convert_date_to_string(date1)
  /\ stage' = "text"
  /\ UNCHANGED <<date1, parsed>>
  /\ UNCHANGED mainVars

\* parsed = convert_str_to_date(string)
ParseDate ==
  /\ stage = "text"
  /\ parsed' = convert_str_to_date(string)
  /\ stage' = "parsed"
  /\ UNCHANGED <<date1, string>>
  /\ UNCHANGED mainVars

CodecNext == FormatDate \/ ParseDate

SpecCodec == CodecInit /\ [][CodecNext]_vars

\* ------------------------------------------------------------------------
\* Properties
\* ------------------------------------------------------------------------

\* the last step ran list_expenses with the filter out.category/start/end on
\* the table as it is now, and out.rows is what the query returned
Queried == out.kind \in {"table", "summary"}

\* C1: once a malformed command has led to the "try again" prompt, a
\* well-formed command typed there is the one that is parsed: the operation
\* runs with the filter of the newly typed command.
C1_RetryTextIsParsed ==
  [][(pc = "retry" /\ ParseIteration(inp').kind = "filter")
       => /\ out'.kind \in {"table", "summary"}
          /\ Filter(out'.category, out'.start, out'.end) = ParseIteration(inp')]_vars

\* C2: at every sub-prompt of the list, add and summarize flows, typing "4"
\* returns to the menu, and that step runs no query and inserts no row.
C2_SentinelAborts ==
  [][(pc \in {"filter", "retry", "amount", "category", "date", "date_retry", "desc"}
        /\ inp' = T4)
       => /\ pc' = "menu"
          /\ expenses' = expenses
          /\ out'.kind \notin {"table", "summary", "inserted"}]_vars

\* C3: a filter that parse_response returns has a start whenever it has an
\* end.
C3_EndImpliesStart ==
  Queried => (out.end # None => out.start # None)

\* C4: with a filter category other than 'all', every returned row has exactly
\* the filter's category (same characters, same case, no wildcard).
C4_CategoryExact ==
  (Queried /\ out.category # all)
    => \A i \in 1..Len(out.rows) : out.rows[i].category = out.category

\* C5: with start and end both set, the rows returned are exactly the rows
\* passing the category clause whose date lies in [start, end] in calendar
\* order, both ends included (so none when start is after end).
C5_InclusiveRange ==
  (Queried /\ out.start # None /\ out.end # None)
    => LET Key(y, m, d) == (y * 100 + m) * 100 + d
           RowKey(row)  == Key(Num(SubSeq(row.date, 1, 4)),
                               Num(SubSeq(row.date, 6, 7)),
                               Num(SubSeq(row.date, 9, 10)))
           lo == Key(out.start.y, out.start.m, out.start.d)
           hi == Key(out.end.y, out.end.m, out.end.d)
           expected == {i \in 1..Len(expenses) :
                          /\ CategoryClause(expenses[i], out.category)
                          /\ lo <= RowKey(expenses[i])
                          /\ RowKey(expenses[i]) <= hi}
       IN  /\ {out.rows[j].id : j \in 1..Len(out.rows)} = expected
           /\ Len(out.rows) = Cardinality(expected)
           /\ \A j \in 1..Len(out.rows) : out.rows[j] = expenses[out.rows[j].id]
           /\ (hi < lo => out.rows = <<>>)

\* a range query that returned the row on its first day and left out an
\* earlier row
C5_Witness ==
  /\ Queried /\ out.start # None /\ out.end # None /\ out.start # out.end
  /\ out.category = all
  /\ Len(expenses) = 2 /\ Len(out.rows) = 1
  /\ out.rows[1].date = isoformat(out.start)

\* C6: with start set and end null, the rows returned are exactly the rows
\* passing the category clause whose date is start; a later row is not
\* returned.
C6_SingleDate ==
  (Queried /\ out.start # None /\ out.end = None)
    => LET expected == {i \in 1..Len(expenses) :
                          /\ CategoryClause(expenses[i], out.category)
                          /\ Num(SubSeq(expenses[i].date, 1, 4)) = out.start.y
                          /\ Num(SubSeq(expenses[i].date, 6, 7)) = out.start.m
                          /\ Num(SubSeq(expenses[i].date, 9, 10)) = out.start.d}
       IN  /\ {out.rows[j].id : j \in 1..Len(out.rows)} = expected
           /\ Len(out.rows) = Cardinality(expected)
           /\ \A j \in 1..Len(out.rows) : out.rows[j] = expenses[out.rows[j].id]

\* a single-date query that returned the row of that day while the table
\* holds a row of a later day
C6_Witness ==
  /\ Queried /\ out.start # None /\ out.end = None
  /\ out.category = all
  /\ Len(out.rows) = 1
  /\ \E i \in 1..Len(expenses) : TextLess(isoformat(out.start), expenses[i].date)

\* C7: the filter {all, null, null} returns every row of the table.
C7_AllReturnsEveryRow ==
  (Queried /\ out.category = all /\ out.start = None /\ out.end = None)
    => /\ Len(out.rows) = Len(expenses)
       /\ \A i \in 1..Len(expenses) : \E j \in 1..Len(out.rows) : out.rows[j] = expenses[i]

\* the all/all query on a table of two rows of different categories and dates
C7_Witness ==
  /\ Queried /\ out.category = all /\ out.start = None /\ out.end = None
  /\ Len(expenses) = 2
  /\ expenses[1].category # expenses[2].category
  /\ expenses[1].date # expenses[2].date

\* C8: convert_str_to_date raises on no text: it returns a date or None.
C8_NeverRaises ==
  stage = "parsed" => parsed # ValueError

\* C9: the main loop ends only by "4" typed at the menu; after any other
\* input the session is waiting for input again.
C9_EndsOnlyByMenu4 ==
  [][(pc \notin {"done", "crashed"} /\ pc' \in {"done", "crashed"})
       => (pc = "menu" /\ ParseInt(inp') = IntOf(4) /\ pc' = "done")]_vars

\* C10: convert_str_to_date(convert_date_to_string(d)) = d for every calendar
\* date d.
C10_RoundTrip ==
  (stage = "parsed" /\ date1 # None) => parsed = date1

\* the round trip of a date whose year, month and day all need zero padding
C10_Witness ==
  /\ stage = "parsed" /\ date1 # None
  /\ date1.y < 1000 /\ date1.m < 10 /\ date1.d < 10
  /\ date1.m # date1.d
  /\ parsed = date1

\* C11: the table only grows, and only by a completed add: every step either
\* leaves the table as it is (list and summarize among them), or is the
\* Description step of an add and appends exactly one row after the rows
\* already there, which stay as they were.
C11_AppendOnly ==
  [][\/ expenses' = expenses
     \/ /\ pc = "desc" /\ inp' # T4 /\ out'.kind = "inserted"
        /\ Len(expenses') = Len(expenses) + 1
        /\ SubSeq(expenses', 1, Len(expenses)) = expenses]_vars

\* a summarize on a table that two adds have filled
C11_Witness ==
  /\ out.kind = "summary"
  /\ Len(expenses) = 2
  /\ expenses[1].id = 1 /\ expenses[2].id = 2

\* C20: a step of the add flow that does not complete the add (a cancel with
\* "4", a re-prompt, an entered date that raised, a failed insert) leaves the
\* table exactly as it was.
C20_NoPartialAdd ==
  [][(pc \in {"amount", "category", "date", "date_retry", "desc"}
        /\ out'.kind # "inserted")
       => expenses' = expenses]_vars

\* back at the menu after "4" at a prompt of the add flow, the table not empty
C20_Witness ==
  /\ pc = "menu" /\ num = 2 /\ inp = T4 /\ out.kind = "none"
  /\ Len(expenses) = 1

\* C12: a completed add stores the amount, category, description and date
\* that were entered, and a list with the filter {c, d, null} returns every
\* stored row of category c and date d, the row just added among them.
C12_AddThenList ==
  /\ [][(pc = "desc" /\ out'.kind = "inserted")
          => LET row == expenses'[Len(expenses')]
             IN  /\ row.amount.mant = amount.mant
                 /\ row.amount.scale = amount.scale
                 /\ row.category = category
                 /\ row.desc = inp'
                 /\ Num(SubSeq(row.date, 1, 4)) = dateInFormat.y
                 /\ Num(SubSeq(row.date, 6, 7)) = dateInFormat.m
                 /\ Num(SubSeq(row.date, 9, 10)) = dateInFormat.d]_vars
  /\ []((out.kind = "table" /\ out.start # None /\ out.end = None)
          => \A i \in 1..Len(expenses) :
               (/\ expenses[i].category = out.category
                /\ Num(SubSeq(expenses[i].date, 1, 4)) = out.start.y
                /\ Num(SubSeq(expenses[i].date, 6, 7)) = out.start.m
                /\ Num(SubSeq(expenses[i].date, 9, 10)) = out.start.d)
               => \E j \in 1..Len(out.rows) : out.rows[j] = expenses[i])

\* the list "g 8/20/2025" returning the row added last and nothing else
C12_Witness ==
  /\ out.kind = "table"
  /\ out.category = <<"g">> /\ out.start = MkDate(2025, 8, 20) /\ out.end = None
  /\ Len(expenses) = 2
  /\ Len(out.rows) = 1 /\ out.rows[1] = expenses[2]

\* C13: the rows of a query are in descending date order, and rows of the
\* same date are in id (insertion) order.
C13_DateDescending ==
  Queried
    => \A j \in 1..Len(out.rows) : \A k \in 1..Len(out.rows) :
         j < k =>
           LET Key(row) == (Num(SubSeq(row.date, 1, 4)) * 100
                              + Num(SubSeq(row.date, 6, 7))) * 100
                             + Num(SubSeq(row.date, 9, 10))
           IN  \/ Key(out.rows[j]) > Key(out.rows[k])
               \/ /\ Key(out.rows[j]) = Key(out.rows[k])
                  /\ out.rows[j].id < out.rows[k].id

\* a query that returns the row added second before the row added first
C13_Witness ==
  /\ Queried
  /\ Len(out.rows) = 2
  /\ out.rows[1].id = 2 /\ out.rows[2].id = 1

\* C14: the total of summarize_spending is the arithmetic sum of the amounts
\* of the rows the query returned, and the integer 0 when there is none.
\* (Amounts are compared in tenths and in units of 10^-16.)
C14_TotalIsSum ==
  out.kind = "summary"
    => LET Tenths(a) == IF a.scale <= 1 THEN a.mant * Pow10(1 - a.scale) ELSE 0
           Small(a)  == IF a.scale <= 1 THEN 0 ELSE a.mant * Pow10(16 - a.scale)
           sumT[n \in 0..Len(out.rows)] ==
             IF n = 0 THEN 0 ELSE sumT[n - 1] + Tenths(out.rows[n].amount)
           sumS[n \in 0..Len(out.rows)] ==
             IF n = 0 THEN 0 ELSE sumS[n - 1] + Small(out.rows[n].amount)
       IN  /\ Tenths(out.total) = sumT[Len(out.rows)]
           /\ Small(out.total) = sumS[Len(out.rows)]
           /\ (Len(out.rows) = 0 => out.total = Zero)

\* C15: a well-formed command of two or three tokens runs at once, with the
\* filter whose category is token 1, whose start is null for 'all' and the
\* date of token 2 otherwise, and whose end is the date of token 3 or null.
C15_WellFormedCommand ==
  [][pc = "filter"
       => LET DateOf(tok) ==
                IF tok = all THEN None
                ELSE IF tok = D1231 THEN MkDate(2024, 12, 31)
                ELSE IF tok = D820 THEN MkDate(2025, 8, 20)
                ELSE MkDate(2025, 8, 21)
              Ran(c, st, en) ==
                /\ pc' = "menu"
                /\ out'.kind = (IF num = 1 THEN "table" ELSE "summary")
                /\ out'.category = c /\ out'.start = st /\ out'.end = en
          IN  \A c \in {<<"f">>, <<"F">>, <<"g">>, <<"_">>, all} :
                \A st \in {all} \cup GoodDateTexts :
                  /\ inp' = Join(<<c, st>>) => Ran(c, DateOf(st), None)
                  /\ \A en \in GoodDateTexts :
                       inp' = Join(<<c, st, en>>) => Ran(c, DateOf(st), DateOf(en))]_vars

\* the command "f 8/20/2025 08/21/2025" has run
C15_Witness ==
  /\ Queried
  /\ inp = Join(<<(<<"f">>), D820, D0821>>)
  /\ out.category = <<"f">>
  /\ out.start = MkDate(2025, 8, 20) /\ out.end = MkDate(2025, 8, 21)

\* C16: every stored row has an integer amount.
C16_IntegerAmounts ==
  \A i \in 1..Len(expenses) : expenses[i].amount.type = "integer"

\* C17: the statement text is the same for all filters with the same clauses
\* present; WHERE is there iff a clause is; the clauses are joined by AND and
\* neither AND nor WHERE stands right before ORDER BY; there are as many
\* parameters as placeholders, the date parameters before the category.
C17_StatementShape ==
  Queried
    => LET words  == SelectSeq(Split(out.sql, " "), LAMBDA w : Len(w) > 0)
           Count(w) == Cardinality({i \in 1..Len(words) : words[i] = w})
           Pos(w)   == CHOOSE i \in 1..Len(words) : words[i] = w
           between  == out.end # None
           equal    == out.end = None /\ out.start # None
           like     == out.category # all
           nargs    == (IF between \/ equal THEN 1 ELSE 0) + (IF like THEN 1 ELSE 0)
           Dates    == {None, MkDate(2024, 12, 31), MkDate(1, 1, 1)}
       IN  /\ \A c \in {<<"%">>, <<"x", "'", ";">>, all} :
                \A st \in Dates : \A en \in Dates :
                  (/\ (c # all) = like
                   /\ (en # None) = between
                   /\ (en = None /\ st # None) = equal)
                  => Query(c, st, en).sql = out.sql
           /\ Count(<<"W", "H", "E", "R", "E">>) = (IF nargs > 0 THEN 1 ELSE 0)
           /\ Count(<<"A", "N", "D">>)
                = (IF nargs = 2 THEN 1 ELSE 0) + (IF between THEN 1 ELSE 0)
           /\ words[Pos(<<"O", "R", "D", "E", "R">>) - 1]
                \notin {<<"A", "N", "D">>, <<"W", "H", "E", "R", "E">>}
           /\ Count(<<"B", "E", "T", "W", "E", "E", "N">>) = (IF between THEN 1 ELSE 0)
           /\ Count(<<"=">>) = (IF equal THEN 1 ELSE 0)
           /\ Count(<<"L", "I", "K", "E">>) = (IF like THEN 1 ELSE 0)
           /\ Count(<<"?">>) = Len(out.params)
           /\ (like /\ between
                 => Pos(<<"B", "E", "T", "W", "E", "E", "N">>) < Pos(<<"L", "I", "K", "E">>))
           /\ (like /\ equal => Pos(<<"=">>) < Pos(<<"L", "I", "K", "E">>))
           /\ (like => out.params[Len(out.params)] = out.category)
           /\ (between => /\ out.params[1] = (IF out.start = None THEN SqlNull
                                              ELSE Pad(out.start.y, 4) \o <<"-">>
                                                     \o Pad(out.start.m, 2) \o <<"-">>
                                                     \o Pad(out.start.d, 2))
                          /\ out.params[2] = Pad(out.end.y, 4) \o <<"-">>
                                               \o Pad(out.end.m, 2) \o <<"-">>
                                               \o Pad(out.end.d, 2))
           /\ (equal => out.params[1] = Pad(out.start.y, 4) \o <<"-">>
                                          \o Pad(out.start.m, 2) \o <<"-">>
                                          \o Pad(out.start.d, 2))

\* a query with the range clause and the category clause
C17_Witness ==
  /\ Queried
  /\ out.start # None /\ out.end # None /\ out.category # all
  /\ Len(out.params) = 3

\* C18: the description of a summary is "the <category> category" or
\* "all categories", then nothing if start is null, " on MM/DD/YYYY" if only
\* start is set, " from MM/DD/YYYY to MM/DD/YYYY" if both are set.
C18_SummaryDescription ==
  out.kind = "summary"
    => LET MDY(dt) == Pad(dt.m, 2) \o <<"/">> \o Pad(dt.d, 2) \o <<"/">> \o Pad(dt.y, 4)
           catpart ==
             IF out.category # all
             THEN <<"t", "h", "e", " ">> \o out.category
                    \o <<" ", "c", "a", "t", "e", "g", "o", "r", "y">>
             ELSE <<"a", "l", "l", " ", "c", "a", "t", "e", "g", "o", "r", "i", "e", "s">>
           datepart ==
             IF out.start = None THEN <<>>
             ELSE IF out.end = None THEN <<" ", "o", "n", " ">> \o MDY(out.start)
             ELSE <<" ", "f", "r", "o", "m", " ">> \o MDY(out.start)
                    \o <<" ", "t", "o", " ">> \o MDY(out.end)
       IN  out.text = catpart \o datepart

\* a summary over a category and a range of two different days
C18_Witness ==
  /\ out.kind = "summary"
  /\ out.category = <<"f">>
  /\ out.start = MkDate(2024, 12, 31) /\ out.end = MkDate(2025, 8, 20)

\* C19: a command has the outcome of the same tokens separated by single
\* blanks: extra blanks between the tokens or at the ends change nothing.
C19_WhitespaceTokens ==
  [][(pc = "filter" /\ inp' # T4)
       => LET tokens == SelectSeq(Split(inp', " "), LAMBDA w : Len(w) > 0)
              canon  == IF Len(tokens) = 0 THEN Reprompt
                        ELSE ParseIteration(Join(tokens))
          IN  /\ canon.kind = "filter"
                   => /\ out'.kind \in {"table", "summary"}
                      /\ Filter(out'.category, out'.start, out'.end) = canon
              /\ canon.kind = "reprompt" => pc' = "retry"]_vars

====
